---- MODULE Spec2Model ----
(***************************************************************************)
(* State-machine model of the "2025 memory wall" App component.            *)
(*                                                                         *)
(* Two source variants are modelled:                                       *)
(*   src/unnamed/part_000  the variant with month "film" mode (Spec,       *)
(*                         SpecUpload)                                     *)
(*   src/src/App.tsx       the earlier variant with toggle selection       *)
(*                         (SpecApp)                                       *)
(*                                                                         *)
(* React semantics: a setState call queues an update (variable pending);   *)
(* the action Commit renders the queued updates and runs the effects whose *)
(* dependencies changed.  Refs are written immediately.  Handlers and      *)
(* animation frames may run between a setState call and its Commit, and    *)
(* then read refs that are stale with respect to the queued updates.       *)
(***************************************************************************)
EXTENDS Integers, Sequences, FiniteSets, TLC

\* --------------------------------------------------------------------------
\* Program constants
\* --------------------------------------------------------------------------
PHOTO_COUNT == 150
DECO_COUNT == 250
TOTAL_ITEMS == PHOTO_COUNT + DECO_COUNT
\* if (Date.now() - lastStateChangeTime.current > 2000)
CooldownMs == 2000
\* window.innerWidth < 768
MobileWidth == 768
\* dt < 300 && Math.hypot(dx, dy) < 30
TapHoldMs == 300
\* generateTextLayout: the canvas and the sampling step, in pixels
CanvasWidth == 1024
CanvasHeight == 512
SampleStep == 4
TapMovePx == 30
\* let closestDist = 0.15, in hundredths of a normalized device unit
MagnetThreshold == 15
\* let minDistance = 0.1 (App.tsx), in hundredths of a normalized device unit
MagnetThresholdApp == 10
\* videoRef.current.readyState === 4 (HAVE_ENOUGH_DATA)
HaveEnoughData == 4
\* useState<number | null>(null): the null month
Null == -1
\* activePhotoId: -1, no photo selected
NoPhoto == -1

\* --------------------------------------------------------------------------
\* Bounds of the model
\* --------------------------------------------------------------------------
\* clock steps that may pass between a setState call and its Commit
MaxStale == 1
\* media streams acquired at most
MaxStreams == 1
\* next/prev clicks explored
MaxNav == 1
\* files in one upload batch at most
MaxFiles == 4
\* upload batches explored
MaxUploads == 1

\* getUserMedia calls explored in the camera specification
MaxCamStreams == 2

\* targetP = 1 of the star update, in the model's fixed-point unit
ProgressOne == 8
\* the progress controller on its own: the longest frame delta, in
\* half-lives, and the number of frames followed
MaxDelta == 3
MaxFrames == 3
\* the most lit samples of a raster, and the largest count asked for
MaxPoints == 2
MaxCount == 2

\* one clock step: half the cooldown, so that gaps below, at and above the
\* cooldown all occur
TickMs == CooldownMs \div 2
\* elapsed times are kept up to the first value above the cooldown
ElapsedCap == CooldownMs + TickMs

VARIABLES
    \* React state (as of the last render)
    isFormed, activeMonth, cameraActive, uiActiveId, modelLoaded,
    userTextures, sceneReady,
    \* updates queued by setState calls and not yet rendered
    pending,
    \* refs
    isFormedRef, activeMonthRef, cameraActiveRef, activePhotoId,
    gestureRecognizerRef,
    \* the clock as the code reads it:
    \*   sinceStateChange = Date.now() - lastStateChangeTime.current
    \*   videoTimeFresh   = (Date.now() !== lastVideoTimeRef.current)
    sinceStateChange, videoTimeFresh, stale,
    \* environment: model download, camera, upload in flight
    loadModel, video, streams, gum, upload, uploads, navs,
    \* history: the handler that ran last with what it read and, for a frame,
    \* the sample entities it left visible; the time since the
    \* last applied finger-count signal and the gap between the last two, kept
    \* until the clock next advances
    last, sinceEntry, entryGap,
    \* the component is mounted; the scene's uProgress uniform (in units of
    \* 1 / ProgressOne); interactionState.handPos; the animate callbacks
    \* requested and not yet run or cancelled
    mounted, uProgress, handPos, raf,
    \* the pointer interaction in progress (press, then the events of its
    \* release)
    pointer,
    \* a call of a pure function on its own: its arguments and its result
    fnArgs, fnResult

reactVars == <<isFormed, activeMonth, cameraActive, uiActiveId, modelLoaded,
               userTextures, sceneReady>>
refVars == <<isFormedRef, activeMonthRef, cameraActiveRef, activePhotoId,
             gestureRecognizerRef>>
camVars == <<loadModel, video, streams, gum>>
uploadVars == <<upload, uploads>>
timeVars == <<sinceStateChange, videoTimeFresh, stale, sinceEntry>>
sceneVars == <<mounted, uProgress, handPos, raf>>
callVars == <<fnArgs, fnResult>>
vars == <<reactVars, pending, refVars, camVars, uploadVars, timeVars, navs,
          last, entryGap, sceneVars, pointer, callVars>>

\* --------------------------------------------------------------------------
\* React update queue
\* --------------------------------------------------------------------------
NoPending ==
    [isFormed |-> <<>>, activeMonth |-> <<>>, cameraActive |-> <<>>,
     uiActiveId |-> <<>>, modelLoaded |-> <<>>, userTextures |-> <<>>,
     sceneReady |-> FALSE]

\* setX(v): queue the update; React bails out of an update to the current
\* value when nothing is queued for that state.
SetState(p, field, cur, v) ==
    IF p[field] = <<>> /\ cur = v THEN p ELSE [p EXCEPT ![field] = <<v>>]

\* the value a state has after its queued update is rendered
Rendered(cur, upd) == IF upd = <<>> THEN cur ELSE upd[1]

Xor(a, b) == (a /\ ~b) \/ (~a /\ b)

Min(a, b) == IF a < b THEN a ELSE b

\* history record of the last handler (cam: the camera target a frame
\* computed): op names it; of is, for a commit, the
\* handler whose updates it rendered; gesture, fRef, mRef and sel are a
\* frame's top gesture, the refs it read and the finger count it was entitled
\* to select (-1: none); x, width, target, before and streak are a tap's
\* position, viewport width, resolved target, the selection before it and
\* the number of taps in a row with that target
NoLast ==
    [op |-> "mount", of |-> "", gesture |-> "", fRef |-> FALSE, mRef |-> Null,
     sel |-> -1, x |-> -1, width |-> 0, target |-> -1, before |-> -1,
     streak |-> 0, status |-> <<>>, steps |-> <<>>, visible |-> {},
     cam |-> [x |-> 0, y |-> 0]]

NoUpload == [files |-> <<>>, fired |-> {}, newItems |-> <<>>, loadedCount |-> 0,
             base |-> 0]

\* the video element; recognized: the frame it currently shows has been
\* passed to recognizeForVideo
NoVideo == [srcObject |-> 0, readyState |-> 0, loading |-> FALSE,
            recognized |-> FALSE]

\* no pointer interaction in progress.  stage: 0 none, 1 pressed, 2 after
\* pointerup, 3 after touchend, 4 after click; tap is where it is released,
\* move and held are the distance (px) and the time (ms) between press and
\* release; before and film are the selection and the month ref at the press
NoPointer ==
    [stage |-> 0, tap |-> [x |-> -1, width |-> 0], move |-> 0, held |-> 0,
     before |-> -1, film |-> FALSE]

\* --------------------------------------------------------------------------
\* Animation frame requests
\* --------------------------------------------------------------------------
\* pending: the animate callbacks of the current scene that are requested,
\* the newest of them named by reqId; orphans: the requested callbacks of
\* scenes whose cleanup has run
NoFrames == [pending |-> 0, orphans |-> 0]

\* reqId = requestAnimationFrame(animate)
RequestFrame(r) == [r EXCEPT !.pending = @ + 1]

\* the browser runs a requested callback of the current scene
FrameFired(r) == [r EXCEPT !.pending = @ - 1]

\* one execution of animate from a requested callback
FrameTick(r) == RequestFrame(FrameFired(r))

\* the scene effect's body ends its setup with animate()
SceneSetup(r) == RequestFrame([r EXCEPT !.pending = 0])

\* mutant of SceneCleanup: the cleanup does not cancel the request
SceneCleanupNoCancel(r) ==
    [pending |-> 0, orphans |-> r.orphans + r.pending]

\* the scene effect's cleanup: cancelAnimationFrame(reqId) removes the
\* newest request; any other request of the scene stays with the browser
SceneCleanup(r) ==
    [pending |-> 0,
     orphans |-> r.orphans + (IF r.pending > 0 THEN r.pending - 1 ELSE 0)]

\* --------------------------------------------------------------------------
\* Initial state: the component as mounted
\* --------------------------------------------------------------------------
\* mutant of isDeco: ornaments pass for photos
isDecoNever(id) == FALSE

\* obj.isDeco: the ornaments are the entities created after the photos
isDeco(id) == id >= PHOTO_COUNT

\* the ids of the sample entities: four photos and two ornaments
Entities ==
    {0, 1, 2, PHOTO_COUNT - 1, PHOTO_COUNT, PHOTO_COUNT + 1}

Mounted ==
    /\ isFormed = FALSE
    /\ activeMonth = Null
    /\ cameraActive = FALSE
    /\ uiActiveId = NoPhoto
    /\ modelLoaded = FALSE
    /\ userTextures = <<>>
    /\ sceneReady = FALSE
    /\ pending = NoPending
    /\ isFormedRef = FALSE
    /\ activeMonthRef = Null
    /\ cameraActiveRef = FALSE
    /\ activePhotoId = NoPhoto
    /\ gestureRecognizerRef = FALSE
    \* lastStateChangeTime = 0 and lastVideoTimeRef = -1, long before now
    /\ sinceStateChange = ElapsedCap
    /\ videoTimeFresh = TRUE
    /\ stale = 0
    /\ loadModel = "loading"
    /\ video = NoVideo
    /\ streams = <<>>
    /\ gum = 0
    /\ upload = NoUpload
    /\ uploads = 0
    /\ navs = 0
    /\ last = NoLast
    /\ sinceEntry = -1
    /\ entryGap = -1
    /\ mounted = TRUE
    /\ uProgress = 0
    /\ handPos = [x |-> 0, y |-> 0]
    /\ raf = SceneSetup(NoFrames)
    /\ pointer = NoPointer

Init == Mounted /\ fnArgs = <<>> /\ fnResult = -1

\* --------------------------------------------------------------------------
\* Gesture recognizer results
\* --------------------------------------------------------------------------
\* the landmarks countExtendedFingers reads: tip and lower joint of each digit
Digits == <<[tip |-> 8, joint |-> 6], [tip |-> 12, joint |-> 10],
            [tip |-> 16, joint |-> 14], [tip |-> 20, joint |-> 18],
            [tip |-> 4, joint |-> 2]>>
LandmarkIdx == {2, 4, 6, 8, 10, 12, 14, 16, 18, 20}

RECURSIVE SumTo(_, _)
SumTo(f, n) == IF n = 0 THEN 0 ELSE f[n] + SumTo(f, n - 1)

\* lower y = extended (image y grows downward); the comparison is strict
countExtendedFingers(landmarks) ==
    SumTo([d \in 1..5 |->
             IF landmarks[Digits[d].tip].y < landmarks[Digits[d].joint].y
             THEN 1 ELSE 0], 5)

\* a hand extending its first k digits (in the order of Digits) with every
\* tip at (x, y), in tenths of the image; the joint of an extended digit is
\* below its tip, a digit that is not extended has its tip level with the
\* joint
HandAt(k, x, y) ==
    [i \in LandmarkIdx |->
        IF \E d \in 1..k : Digits[d].joint = i
        THEN [x |-> x, y |-> y + 1] ELSE [x |-> x, y |-> y]]

\* a hand in the centre of the image extending its last k digits
LastDigitsHand(k) ==
    [i \in LandmarkIdx |->
        IF \E d \in (6 - k)..5 : Digits[d].joint = i
        THEN [x |-> 5, y |-> 6] ELSE [x |-> 5, y |-> 5]]

\* a sample hand in the centre of the image
SampleHand(k) == HandAt(k, 5, 5)

GestureNames == {"Closed_Fist", "Open_Palm", "Victory"}

\* results of recognizeForVideo: one gesture list and one landmark list per
\* detected hand (numHands: 2); only the first hand's top gesture is read.
\* G: top gestures of the first hand, K: fingers it extends when it is alone,
\* K1 and K2: fingers the first and the second of two hands extend
ResultsOf(G, K, K1, K2) ==
    {[gestures |-> <<>>, landmarks |-> <<>>]}
    \cup {[gestures |-> <<g>>, landmarks |-> <<SampleHand(k)>>] :
             g \in G, k \in K}
    \cup {[gestures |-> <<g, "Victory">>,
           landmarks |-> <<SampleHand(k1), SampleHand(k2)>>] :
             g \in G, k1 \in K1, k2 \in K2}

\* the sample results: totals 0 and 2 with one hand, 12 with two
Results == ResultsOf(GestureNames, {0, 2}, {2}, {1})

\* mutant of TotalCount: the plain sum of both hands
TotalCountNaive(landmarks) ==
    IF Len(landmarks) > 1
    THEN countExtendedFingers(landmarks[1])
         + countExtendedFingers(landmarks[2])
    ELSE countExtendedFingers(landmarks[1])

\* totalCount of animate: the sum of both hands, overridden by the two-hand
\* special cases
TotalCount(landmarks) ==
    LET count1 == countExtendedFingers(landmarks[1])
        sum == IF Len(landmarks) > 1
               THEN count1 + countExtendedFingers(landmarks[2]) ELSE count1
    IN  IF Len(landmarks) > 1
        THEN LET c1 == countExtendedFingers(landmarks[1])
                 c2 == countExtendedFingers(landmarks[2])
                 t11 == IF c1 = 1 /\ c2 = 1 THEN 11 ELSE sum
             IN  IF (c1 = 1 /\ c2 = 2) \/ (c1 = 2 /\ c2 = 1) THEN 12 ELSE t11
        ELSE sum

\* landmark lists of one or two hands, each extending its first or its last
\* k digits, k = 0..5
CountHands == {HandAt(k, 5, 5) : k \in 0..5} \cup {LastDigitsHand(k) : k \in 0..5}
CountInputs ==
    {<<h>> : h \in CountHands} \cup {<<h1, h2>> : h1 \in CountHands, h2 \in CountHands}

\* totalCount computed for the landmark lists in fnArgs
CountFingers ==
    /\ fnResult = -1
    /\ fnResult' = TotalCount(fnArgs)
    /\ UNCHANGED <<reactVars, pending, refVars, camVars, uploadVars, timeVars,
                   navs, last, entryGap, sceneVars, pointer, fnArgs>>

\* mutant of CooldownElapsed: no cooldown
CooldownElapsedAlways == TRUE

\* the cooldown gate of the month selection
CooldownElapsed == sinceStateChange > CooldownMs

\* mutant of MonthSelected: the month selection does not look at formed
MonthSelectedFormedToo(results) ==
    /\ Len(results.landmarks) > 0
    /\ CooldownElapsed
    /\ TotalCount(results.landmarks) >= 1
    /\ TotalCount(results.landmarks) <= 12
    /\ activeMonthRef # TotalCount(results.landmarks)

\* mutant of MonthSelected: no range check on the total
MonthSelectedNoRange(results) ==
    /\ ~isFormedRef
    /\ Len(results.landmarks) > 0
    /\ CooldownElapsed
    /\ activeMonthRef # TotalCount(results.landmarks)

\* mutant of MonthSelected: a month can be entered but not switched
MonthSelectedNoSwitch(results) ==
    /\ ~isFormedRef
    /\ Len(results.landmarks) > 0
    /\ CooldownElapsed
    /\ TotalCount(results.landmarks) >= 1
    /\ TotalCount(results.landmarks) <= 12
    /\ activeMonthRef = Null

\* rule 1 (Chaos -> Film): whether the frame calls setActiveMonth(totalCount)
MonthSelected(results) ==
    /\ ~isFormedRef
    /\ Len(results.landmarks) > 0
    /\ CooldownElapsed
    /\ TotalCount(results.landmarks) >= 1
    /\ TotalCount(results.landmarks) <= 12
    /\ activeMonthRef # TotalCount(results.landmarks)

\* mutant of FistApplies: the fist acts only on a formed scene
FistAppliesFormedOnly(name) ==
    name = "Closed_Fist" /\ isFormedRef /\ activeMonthRef # Null

\* rule 2 (Closed Fist -> Form 2025, reset month): whether the frame applies it
FistApplies(name) ==
    name = "Closed_Fist" /\ (~isFormedRef \/ activeMonthRef # Null)

\* rule 3 (Open Palm -> Scatter, only if formed); the else branch of rule 2
\* mutant of PalmApplies: the palm scatters whatever formed is
PalmAppliesAlways(name) == name = "Open_Palm"

PalmApplies(name) ==
    name # "Closed_Fist" /\ name = "Open_Palm" /\ isFormedRef

\* the updates rule 1 queues
Rule1(p, results) ==
    IF MonthSelected(results)
    THEN SetState(p, "activeMonth", activeMonth, TotalCount(results.landmarks))
    ELSE p

\* mutant of Rule23: the palm resets the month as well
Rule23PalmResets(p, name) ==
    IF FistApplies(name)
    THEN SetState(SetState(p, "isFormed", isFormed, TRUE),
                  "activeMonth", activeMonth, Null)
    ELSE IF name = "Open_Palm"
    THEN SetState(SetState(p, "isFormed", isFormed, FALSE),
                  "activeMonth", activeMonth, Null)
    ELSE p

\* mutant of Rule23: the fist forms without resetting the month
Rule23KeepMonth(p, name) ==
    IF FistApplies(name)
    THEN SetState(p, "isFormed", isFormed, TRUE)
    ELSE IF PalmApplies(name)
    THEN SetState(p, "isFormed", isFormed, FALSE)
    ELSE p

\* the updates rules 2 and 3 queue
Rule23(p, name) ==
    IF FistApplies(name)
    THEN SetState(SetState(p, "isFormed", isFormed, TRUE),
                  "activeMonth", activeMonth, Null)
    ELSE IF PalmApplies(name)
    THEN SetState(p, "isFormed", isFormed, FALSE)
    ELSE p

\* mutant of GestureRules: the month selection runs after the fist rule
GestureRulesSwapped(p, results) ==
    Rule1(Rule23(p, results.gestures[1]), results)

\* the gesture rules in source order: rule 1, then rule 2 or 3
GestureRules(p, results) ==
    Rule23(Rule1(p, results), results.gestures[1])

\* the guard of the gesture branch of animate
GestureBranch ==
    /\ cameraActiveRef
    /\ gestureRecognizerRef
    /\ video.readyState = HaveEnoughData
    /\ videoTimeFresh

\* what a frame read, for the history record: the finger count rule 1 is
\* entitled to select, from the refs and the clock as the frame finds them
Entitled(results) ==
    IF /\ Len(results.landmarks) > 0
       /\ ~isFormedRef
       /\ sinceStateChange > CooldownMs
       /\ TotalCount(results.landmarks) \in 1..12
       /\ TotalCount(results.landmarks) # activeMonthRef
    THEN TotalCount(results.landmarks) ELSE -1

\* the argument of the last setGestureStatus call of a frame
GestureStatus(results) ==
    IF Len(results.gestures) = 0 THEN <<"None">>
    ELSE IF MonthSelected(results)
    THEN <<"Month: ", TotalCount(results.landmarks)>>
    ELSE <<results.gestures[1]>>

\* mutant of HandPos: the pointer returns to the centre when no hand is seen
HandPosRecentre(results) ==
    IF Len(results.gestures) > 0 /\ Len(results.landmarks) > 0
    THEN LET indexTip == results.landmarks[1][8]
         IN  [x |-> (10 - indexTip.x) * 2 - 10, y |-> 10 - indexTip.y * 2]
    ELSE [x |-> 0, y |-> 0]

\* interactionState.handPos after a frame: the index fingertip (landmark 8)
\* of the first hand, mirrored in x, in tenths
HandPos(results) ==
    IF Len(results.gestures) > 0 /\ Len(results.landmarks) > 0
    THEN LET indexTip == results.landmarks[1][8]
         IN  [x |-> (10 - indexTip.x) * 2 - 10, y |-> 10 - indexTip.y * 2]
    ELSE handPos

RECURSIVE Pow2(_)
Pow2(n) == IF n = 0 THEN 1 ELSE 2 * Pow2(n - 1)

\* mutant of Lerp: the factor is 2^delta - 1, which exceeds 1 from delta = 2
LerpUnclamped(p, target, delta) ==
    IF target >= p
    THEN p + ((target - p) * (Pow2(delta) - 1))
    ELSE p - ((p - target) * (Pow2(delta) - 1))

\* THREE.MathUtils.lerp(p, target, 1 - Math.exp(-3.0 * delta)), with delta in
\* half-lives (ln 2 / 3 s), so that the factor is 1 - 2^(-delta); p and target
\* in units of 1 / ProgressOne, the step truncated toward zero
Lerp(p, target, delta) ==
    IF target >= p
    THEN p + ((target - p) * (Pow2(delta) - 1)) \div Pow2(delta)
    ELSE p - ((p - target) * (Pow2(delta) - 1)) \div Pow2(delta)

\* mutant of StarUpdate: targetP follows the queued formed state
StarUpdateQueued(delta) ==
    uProgress' = Lerp(uProgress,
                      IF Rendered(isFormed, pending.isFormed)
                      THEN ProgressOne ELSE 0, delta)

\* Update Stars: uProgress moves toward targetP
StarUpdate(delta) ==
    uProgress' = Lerp(uProgress, IF isFormedRef THEN ProgressOne ELSE 0, delta)

\* photoMonth of the scene construction: the month of the uploaded texture
\* the photo shows, else (i % 12) + 1; 0 for an ornament
PhotoMonth(id) ==
    IF isDeco(id) THEN 0
    ELSE IF id < Len(userTextures) THEN userTextures[id + 1]
    ELSE (id % 12) + 1

\* mutant of MeshVisible: film mode leaves the ornaments visible
MeshVisibleDecoKept(id) ==
    IF isDeco(id) THEN TRUE
    ELSE IF activePhotoId = id THEN TRUE
    ELSE IF activeMonthRef # Null THEN PhotoMonth(id) = activeMonthRef
    ELSE TRUE

\* p.mesh.visible as the layout loop of animate sets it
MeshVisible(id) ==
    IF isDeco(id) THEN activeMonthRef = Null
    ELSE IF activePhotoId = id THEN TRUE
    ELSE IF activeMonthRef # Null THEN PhotoMonth(id) = activeMonthRef
    ELSE TRUE

\* Layout Logic: objects.forEach over the sample entities; those whose
\* mesh.visible the tick leaves true
EntityLayout == {id \in Entities : MeshVisible(id)}

\* mouseRef.current while no mousemove has been handled
MouseAtRest == [x |-> 0, y |-> 0]

\* Camera Animation: targetCamX and targetCamY of a tick, in tenths; with the
\* camera on the target is the origin, else thrice the mouse position
CameraTarget ==
    IF cameraActiveRef
    THEN [x |-> 0, y |-> 0]
    ELSE [x |-> MouseAtRest.x * 3, y |-> MouseAtRest.y * 3]

\* the blocks of animate in the order it runs them: Gesture Logic, then
\* Update Stars
TickOrder == <<"gestures", "progress">>

\* one animation tick whose gesture branch runs on recognizer output results,
\* delta after the tick before it
Animate(results, delta) ==
    /\ mounted
    /\ raf.pending > 0
    /\ raf' = FrameTick(raf)
    /\ GestureBranch
    /\ videoTimeFresh' = FALSE
    /\ IF Len(results.gestures) > 0
       THEN LET name == results.gestures[1]
                applied == MonthSelected(results) /\ pending = NoPending
            IN  /\ pending' = GestureRules(pending, results)
                /\ sinceStateChange' =
                      IF FistApplies(name) \/ PalmApplies(name)
                      THEN 0 ELSE sinceStateChange
                /\ sinceEntry' =
                      IF name \in {"Closed_Fist", "Open_Palm"} THEN -1
                      ELSE IF applied THEN 0 ELSE sinceEntry
                /\ entryGap' =
                      IF name \in {"Closed_Fist", "Open_Palm"} THEN -1
                      ELSE IF applied THEN sinceEntry ELSE entryGap
                /\ last' = [NoLast EXCEPT
                              !.op = "frame", !.gesture = name,
                              !.fRef = isFormedRef, !.mRef = activeMonthRef,
                              !.sel = Entitled(results),
                              !.status = GestureStatus(results),
                              !.steps = TickOrder,
                              !.visible = EntityLayout,
                              !.cam = CameraTarget]
       ELSE /\ last' = [NoLast EXCEPT !.op = "frame",
                                      !.status = GestureStatus(results),
                                      !.steps = TickOrder,
                                      !.visible = EntityLayout,
                                      !.cam = CameraTarget]
            /\ UNCHANGED <<pending, sinceStateChange, sinceEntry, entryGap>>
    /\ handPos' = HandPos(results)
    /\ StarUpdate(delta)
    /\ video' = [video EXCEPT !.recognized = TRUE]
    /\ UNCHANGED <<callVars, reactVars, refVars, loadModel, streams, gum,
                   uploadVars, stale, navs>>
    /\ UNCHANGED <<mounted, pointer>>

\* an animation tick whose gesture branch does not run
AnimateIdle(delta) ==
    /\ mounted
    /\ raf.pending > 0
    /\ raf' = FrameTick(raf)
    /\ ~GestureBranch
    /\ StarUpdate(delta)
    /\ UNCHANGED <<callVars, reactVars, pending, refVars, camVars, uploadVars, timeVars,
                   navs, last, entryGap, mounted, handPos, pointer>>

\* the camera delivers its next frame to the video element
VideoFrame ==
    /\ video.readyState = HaveEnoughData
    /\ video.recognized
    /\ video' = [video EXCEPT !.recognized = FALSE]
    /\ UNCHANGED <<callVars, reactVars, pending, refVars, loadModel, streams, gum,
                   uploadVars, timeVars, navs, last, entryGap, sceneVars,
                   pointer>>

\* --------------------------------------------------------------------------
\* Clock
\* --------------------------------------------------------------------------
\* Date.now() advances by one step.  React renders queued updates from a
\* scheduler task, so only MaxStale steps pass while updates are queued.
Tick ==
    /\ pending # NoPending => stale < MaxStale
    /\ sinceStateChange' = Min(sinceStateChange + TickMs, ElapsedCap)
    /\ videoTimeFresh' = TRUE
    /\ sinceEntry' = IF sinceEntry = -1 THEN -1
                     ELSE Min(sinceEntry + TickMs, ElapsedCap)
    /\ stale' = IF pending # NoPending THEN stale + 1 ELSE 0
    /\ entryGap' = -1
    /\ UNCHANGED <<callVars, reactVars, pending, refVars, camVars, uploadVars, navs,
                   last>>
    /\ UNCHANGED <<sceneVars, pointer>>

\* --------------------------------------------------------------------------
\* Render of the queued updates, followed by the effects
\* --------------------------------------------------------------------------
\* mutant of MonthEffectRuns: entering a month clears nothing
MonthEffectNever(newMonth) == FALSE

\* useEffect [activeMonth]: its body runs when activeMonth changed to a month
MonthEffectRuns(newMonth) == newMonth # activeMonth /\ newMonth # Null

\* the scene effect (deps [cameraActive, userTextures, sceneReady]) runs
\* again: cleanup, then a new scene whose starMat has uProgress: 0
SceneRebuilt(newCamera) ==
    \/ newCamera # cameraActive
    \/ pending.userTextures # <<>>
    \/ pending.sceneReady

Commit ==
    /\ mounted
    /\ pending # NoPending
    /\ LET nf == Rendered(isFormed, pending.isFormed)
           nm == Rendered(activeMonth, pending.activeMonth)
           nc == Rendered(cameraActive, pending.cameraActive)
           nu == Rendered(uiActiveId, pending.uiActiveId)
           nl == Rendered(modelLoaded, pending.modelLoaded)
       IN  /\ isFormed' = nf
           /\ activeMonth' = nm
           /\ cameraActive' = nc
           /\ uiActiveId' = nu
           /\ modelLoaded' = nl
           /\ userTextures' = userTextures \o pending.userTextures
           /\ sceneReady' = Xor(sceneReady, pending.sceneReady)
           \* the ref sync effects
           /\ isFormedRef' = nf
           /\ cameraActiveRef' = nc
           /\ activeMonthRef' = nm
           \* setFormed(false); setActivePhoto(-1)
           /\ activePhotoId' =
                 IF MonthEffectRuns(nm) THEN NoPhoto ELSE activePhotoId
           /\ pending' =
                 IF MonthEffectRuns(nm)
                 THEN SetState(SetState(NoPending, "isFormed", nf, FALSE),
                               "uiActiveId", nu, NoPhoto)
                 ELSE NoPending
    /\ stale' = 0
    /\ uProgress' =
          IF SceneRebuilt(Rendered(cameraActive, pending.cameraActive))
          THEN 0 ELSE uProgress
    \* the scene effect runs again: its cleanup, then its body
    /\ raf' =
          IF SceneRebuilt(Rendered(cameraActive, pending.cameraActive))
          THEN SceneSetup(SceneCleanup(raf)) ELSE raf
    /\ last' = [last EXCEPT !.op = "commit", !.of = last.op]
    /\ UNCHANGED <<gestureRecognizerRef, camVars, uploadVars, sinceStateChange,
                   videoTimeFresh, sinceEntry, navs, entryGap>>
    /\ UNCHANGED <<mounted, handPos, pointer, callVars>>

\* --------------------------------------------------------------------------
\* Recognizer model download and camera
\* --------------------------------------------------------------------------
\* loadModel resolves: the recognizer is stored and setModelLoaded(true)
LoadModelOk ==
    /\ mounted
    /\ loadModel = "loading"
    /\ loadModel' = "ready"
    /\ gestureRecognizerRef' = TRUE
    /\ pending' = SetState(pending, "modelLoaded", modelLoaded, TRUE)
    /\ last' = [NoLast EXCEPT !.op = "loadModelOk"]
    /\ UNCHANGED <<callVars, reactVars, isFormedRef, activeMonthRef, cameraActiveRef,
                   activePhotoId, video, streams, gum, uploadVars, timeVars,
                   navs, entryGap>>
    /\ UNCHANGED <<sceneVars, pointer>>

\* loadModel throws: catch, setModelLoaded(false)
LoadModelFail ==
    /\ mounted
    /\ loadModel = "loading"
    /\ loadModel' = "failed"
    /\ pending' = SetState(pending, "modelLoaded", modelLoaded, FALSE)
    /\ last' = [NoLast EXCEPT !.op = "loadModelFail"]
    /\ UNCHANGED <<callVars, reactVars, refVars, video, streams, gum, uploadVars,
                   timeVars, navs, entryGap>>
    /\ UNCHANGED <<sceneVars, pointer>>

\* the camera-off branch of enableCam: the updates it queues
CamOffUpdates(p) ==
    SetState(SetState(SetState(p, "cameraActive", cameraActive, FALSE),
                      "isFormed", isFormed, FALSE),
             "activeMonth", activeMonth, Null)

\* mutant of EnableCamWithin: no check that the recognizer exists
EnableCamUnchecked(limit) ==
    /\ mounted
    /\ IF cameraActive
       THEN /\ pending' = CamOffUpdates(pending)
            /\ streams' = IF video.srcObject # 0
                          THEN [streams EXCEPT ![video.srcObject] = FALSE]
                          ELSE streams
            /\ video' = IF video.srcObject # 0 THEN NoVideo ELSE video
            /\ sinceEntry' = -1
            /\ entryGap' = -1
            /\ UNCHANGED gum
       ELSE /\ Len(streams) + gum < limit
            /\ gum' = gum + 1
            /\ UNCHANGED <<pending, video, streams, sinceEntry, entryGap>>
    /\ last' = [NoLast EXCEPT
                  !.op = IF cameraActive THEN "camOff" ELSE "camOn",
                  !.before = activePhotoId]
    /\ UNCHANGED <<callVars, reactVars, refVars, loadModel, uploadVars, sinceStateChange,
                   videoTimeFresh, stale, navs>>
    /\ UNCHANGED <<sceneVars, pointer>>

\* click on the camera button, up to the first await; limit bounds the
\* getUserMedia calls explored
EnableCamWithin(limit) ==
    /\ mounted
    /\ IF ~gestureRecognizerRef
       THEN \* alert("AI Model Loading..."); return
            UNCHANGED <<pending, video, streams, gum, sinceEntry, entryGap>>
       ELSE IF cameraActive
       THEN /\ pending' = CamOffUpdates(pending)
            /\ streams' = IF video.srcObject # 0
                          THEN [streams EXCEPT ![video.srcObject] = FALSE]
                          ELSE streams
            /\ video' = IF video.srcObject # 0 THEN NoVideo ELSE video
            /\ sinceEntry' = -1
            /\ entryGap' = -1
            /\ UNCHANGED gum
       ELSE /\ Len(streams) + gum < limit
            /\ gum' = gum + 1
            /\ UNCHANGED <<pending, video, streams, sinceEntry, entryGap>>
    /\ last' = [NoLast EXCEPT
                  !.op = IF ~gestureRecognizerRef THEN "camNoModel"
                         ELSE IF cameraActive THEN "camOff" ELSE "camOn",
                  !.before = activePhotoId]
    /\ UNCHANGED <<callVars, reactVars, refVars, loadModel, uploadVars, sinceStateChange,
                   videoTimeFresh, stale, navs>>
    /\ UNCHANGED <<sceneVars, pointer>>

EnableCam == EnableCamWithin(MaxStreams)

\* getUserMedia resolves: while the video element exists the stream becomes
\* its srcObject and a loadeddata listener is added; after unmount
\* videoRef.current is null and the stream is left as acquired
GumResolve ==
    /\ gum > 0
    /\ gum' = gum - 1
    /\ streams' = Append(streams, TRUE)
    /\ video' = IF mounted
                THEN [srcObject |-> Len(streams) + 1, readyState |-> 0,
                      loading |-> TRUE, recognized |-> FALSE]
                ELSE video
    /\ last' = [NoLast EXCEPT !.op = "gumResolve"]
    /\ UNCHANGED <<callVars, reactVars, pending, refVars, loadModel, uploadVars,
                   timeVars, navs, entryGap>>
    /\ UNCHANGED <<sceneVars, pointer>>

\* getUserMedia rejects: alert("Unable to access camera.")
GumReject ==
    /\ gum > 0
    /\ gum' = gum - 1
    /\ last' = [NoLast EXCEPT !.op = "gumReject"]
    /\ UNCHANGED <<callVars, reactVars, pending, refVars, loadModel, video, streams,
                   uploadVars, timeVars, navs, entryGap>>
    /\ UNCHANGED <<sceneVars, pointer>>

\* the video's loadeddata event: play(); setCameraActive(true)
LoadedData ==
    /\ mounted
    /\ video.loading
    /\ video' = [video EXCEPT !.readyState = HaveEnoughData, !.loading = FALSE]
    /\ pending' = SetState(pending, "cameraActive", cameraActive, TRUE)
    /\ last' = [NoLast EXCEPT !.op = "loadeddata"]
    /\ UNCHANGED <<callVars, reactVars, refVars, loadModel, streams, gum, uploadVars,
                   timeVars, navs, entryGap>>
    /\ UNCHANGED <<sceneVars, pointer>>

\* the component unmounts: the cleanups of the loadModel effect (isMounted =
\* false) and of the scene effect (listeners removed, cancelAnimationFrame,
\* dispose) run; neither touches the video or its stream
Unmount ==
    /\ mounted
    /\ mounted' = FALSE
    /\ raf' = SceneCleanup(raf)
    /\ last' = [NoLast EXCEPT !.op = "unmount", !.before = activePhotoId]
    /\ UNCHANGED <<callVars, reactVars, pending, refVars, camVars, uploadVars, timeVars,
                   navs, entryGap, uProgress, handPos, pointer>>

\* --------------------------------------------------------------------------
\* Selection: raycast, magnetism, random fallback, carousel
\* --------------------------------------------------------------------------
\* A sample arrangement of meshes at the time of a tap, in index order.  x is
\* the projected screen position of the mesh in hundredths of a normalized
\* device unit, depth its distance from the camera along the ray.  Photos
\* have ids 0..PHOTO_COUNT-1, ornaments the ids above; every other mesh is
\* off screen.
Layout ==
    <<[id |-> 0, x |-> 5, depth |-> 1],
      [id |-> 1, x |-> 25, depth |-> 2],
      [id |-> 2, x |-> 45, depth |-> 2],
      [id |-> PHOTO_COUNT - 1, x |-> 45, depth |-> 1],
      [id |-> PHOTO_COUNT, x |-> 25, depth |-> 1],
      [id |-> PHOTO_COUNT + 1, x |-> 65, depth |-> 1]>>

\* clientX of the sample taps (as projected x) and window.innerWidth
TapXs == {5, 10, 18, 25, 45, 60, 65, 90}
Widths == {375, MobileWidth}
Taps == [x : TapXs, width : Widths]
\* Math.random() as a fraction k / RandomDen
RandomNums == {0, 150, 299}
RandomDen == 2 * PHOTO_COUNT

Abs(n) == IF n < 0 THEN -n ELSE n

\* raycaster.intersectObjects(meshes): the meshes under the tap, nearest first
RECURSIVE SortByDepth(_)
SortByDepth(S) ==
    IF S = {} THEN <<>>
    ELSE LET m == CHOOSE e \in S : \A o \in S : e.depth <= o.depth
         IN  <<m>> \o SortByDepth(S \ {m})

Intersects(tap) ==
    SortByDepth({Layout[i] : i \in {j \in 1..Len(Layout) : Layout[j].x = tap.x}})

\* mutant of DirectHit: the farthest intersected mesh is taken
DirectHitFarthest(tap) ==
    LET intersects == Intersects(tap)
    IN  IF Len(intersects) > 0 /\ ~isDeco(intersects[Len(intersects)].id)
        THEN intersects[Len(intersects)].id ELSE NoPhoto

\* 1. Direct hit: the nearest intersected mesh, if it is a photo
DirectHit(tap) ==
    LET intersects == Intersects(tap)
    IN  IF Len(intersects) > 0 /\ ~isDeco(intersects[1].id)
        THEN intersects[1].id ELSE NoPhoto

\* distance of a mesh's projected position to the tap
ScreenDist(obj, tap) == Abs(obj.x - tap.x)

\* mutant of Magnetism: the first photo within the threshold is kept
RECURSIVE MagnetismFirst(_, _, _, _)
MagnetismFirst(i, tap, closestDist, targetId) ==
    IF i > Len(Layout) THEN targetId
    ELSE IF /\ ~isDeco(Layout[i].id)
            /\ ScreenDist(Layout[i], tap) < closestDist
            /\ targetId = NoPhoto
    THEN MagnetismFirst(i + 1, tap, closestDist, Layout[i].id)
    ELSE MagnetismFirst(i + 1, tap, closestDist, targetId)

\* objects.forEach of the magnetism: the first photo among the nearest ones
\* that lie strictly within the threshold
RECURSIVE Magnetism(_, _, _, _)
Magnetism(i, tap, closestDist, targetId) ==
    IF i > Len(Layout) THEN targetId
    ELSE IF ~isDeco(Layout[i].id) /\ ScreenDist(Layout[i], tap) < closestDist
    THEN Magnetism(i + 1, tap, ScreenDist(Layout[i], tap), Layout[i].id)
    ELSE Magnetism(i + 1, tap, closestDist, targetId)

\* Math.floor(Math.random() * PHOTO_COUNT)
RandomPhoto(r) == (r * PHOTO_COUNT) \div RandomDen

\* mutant of TargetId: the random fallback ignores the current selection
TargetIdRandomAnyway(tap, r) ==
    LET direct == DirectHit(tap)
        magnet == IF direct = NoPhoto /\ tap.width < MobileWidth
                  THEN Magnetism(1, tap, MagnetThreshold, NoPhoto)
                  ELSE direct
    IN  IF direct = NoPhoto /\ tap.width < MobileWidth /\ magnet = NoPhoto
        THEN RandomPhoto(r) ELSE magnet

\* targetId of handleRaycast (part_000) for a tap and a random draw
TargetId(tap, r) ==
    LET direct == DirectHit(tap)
        magnet == IF direct = NoPhoto /\ tap.width < MobileWidth
                  THEN Magnetism(1, tap, MagnetThreshold, NoPhoto)
                  ELSE direct
    IN  IF direct = NoPhoto /\ tap.width < MobileWidth
           /\ magnet = NoPhoto /\ activePhotoId = NoPhoto
        THEN RandomPhoto(r) ELSE magnet

\* mutant of FilmModeSuppressed: no early return in film mode
FilmModeSuppressedNever == FALSE

\* if (activeMonthRef.current !== null) return
FilmModeSuppressed == activeMonthRef # Null

\* mutant of NewSelection: a tap on the selected photo deselects it
NewSelectionToggle(targetId) ==
    IF activePhotoId = targetId THEN NoPhoto ELSE targetId

\* the id setActivePhoto is called with for a resolved target
NewSelection(targetId) == targetId

\* how many clicks in a row resolved to the same target
Streak(op, targetId) ==
    IF last.op = op /\ last.target = targetId /\ last.streak < 2
    THEN last.streak + 1
    ELSE IF last.op = op /\ last.target = targetId THEN 2 ELSE 1

\* handleRaycast (part_000), reached from onPointerUp and from onMouseClick
HandleRaycast(tap, r) ==
    LET targetId == IF FilmModeSuppressed THEN NoPhoto ELSE TargetId(tap, r)
    IN  /\ IF ~FilmModeSuppressed /\ targetId # NoPhoto
           THEN /\ activePhotoId' = NewSelection(targetId)
                /\ pending' = SetState(pending, "uiActiveId", uiActiveId,
                                       NewSelection(targetId))
           ELSE UNCHANGED <<activePhotoId, pending>>
        /\ last' = [NoLast EXCEPT
                      !.op = "click", !.mRef = activeMonthRef,
                      !.x = tap.x, !.width = tap.width,
                      !.target = targetId, !.before = activePhotoId,
                      !.streak = Streak("click", targetId)]
        /\ UNCHANGED <<callVars, reactVars, isFormedRef, activeMonthRef, cameraActiveRef,
                       gestureRecognizerRef, camVars, uploadVars, timeVars,
                       navs, entryGap>>
        /\ UNCHANGED sceneVars

\* a click event on a target that is not a button, taken by itself
OnMouseClick(tap, r) == HandleRaycast(tap, r) /\ UNCHANGED pointer

\* sample pointer interactions: where the pointer is released, how far it
\* moved (px) and how long it was held (ms) between press and release
Moves == {TapMovePx - 1, TapMovePx}
Holds == {TapHoldMs - 1, TapHoldMs}
Interactions == [tap : [x : {5, 90}, width : {MobileWidth}],
                 move : Moves, held : Holds]

\* onPointerDown (pointerdown, touchstart) on a target that is not a button
\* or an input: touchStartRef records where and when
OnPointerDown(i) ==
    /\ mounted
    /\ pointer' = [stage |-> 1, tap |-> i.tap, move |-> i.move,
                   held |-> i.held, before |-> activePhotoId,
                   film |-> activeMonthRef # Null]
    /\ last' = [NoLast EXCEPT !.op = "pointerdown", !.before = activePhotoId]
    /\ UNCHANGED <<callVars, reactVars, pending, refVars, camVars, uploadVars, timeVars,
                   navs, entryGap, sceneVars>>

\* Detect Tap: dt < 300 && Math.hypot(dx, dy) < 30
IsTap(dt, dist) == dt < TapHoldMs /\ dist < TapMovePx

\* onPointerUp for the interaction in progress, delivered as the event that
\* takes the interaction to stage
PointerUp(stage, r) ==
    /\ mounted
    /\ pointer' = [pointer EXCEPT !.stage = stage]
    /\ IF IsTap(pointer.held, pointer.move)
       THEN HandleRaycast(pointer.tap, r)
       ELSE /\ last' = [NoLast EXCEPT !.op = "pointerup",
                                      !.before = activePhotoId]
            /\ UNCHANGED <<callVars, reactVars, pending, refVars, camVars, uploadVars,
                           timeVars, navs, entryGap, sceneVars>>

\* the pointerup event
OnPointerUp(r) == pointer.stage = 1 /\ PointerUp(2, r)

\* the touchend event, after the pointerup event if that is delivered
OnTouchEnd(r) == pointer.stage \in {1, 2} /\ PointerUp(3, r)

\* the click event that follows the release, at the release position
OnClick(r) ==
    /\ mounted
    /\ pointer.stage \in {1, 2, 3}
    /\ pointer' = [pointer EXCEPT !.stage = 4]
    /\ HandleRaycast(pointer.tap, r)

\* mutant of SetActivePhoto: the UI state is not told
SetActivePhotoRefOnly(id) ==
    /\ activePhotoId' = id
    /\ UNCHANGED pending

\* setActivePhoto(id)
SetActivePhoto(id) ==
    /\ activePhotoId' = id
    /\ pending' = SetState(pending, "uiActiveId", uiActiveId, id)

\* how many clicks on the next or prev button op in a row, the renders
\* between them not counted
NavStreak(op) ==
    IF op = "close" THEN 0
    ELSE IF last.op = op \/ (last.op = "commit" /\ last.of = op)
    THEN last.streak + 1 ELSE 1

\* mutant of Carousel: no early return when nothing is selected
CarouselNoReturn(op, id) ==
    /\ SetActivePhoto(id)
    /\ last' = [NoLast EXCEPT !.op = op, !.before = activePhotoId,
                              !.streak = NavStreak(op)]
    /\ UNCHANGED <<callVars, reactVars, isFormedRef, activeMonthRef, cameraActiveRef,
                   gestureRecognizerRef, camVars, uploadVars, timeVars,
                   entryGap>>
    /\ UNCHANGED <<sceneVars, pointer>>

\* a carousel button: op names it, id is the photo it moves to; the handler
\* returns early when nothing is selected
Carousel(op, id) ==
    /\ IF op # "close" /\ activePhotoId = NoPhoto
       THEN UNCHANGED <<activePhotoId, pending>>
       ELSE SetActivePhoto(id)
    /\ last' = [NoLast EXCEPT !.op = op, !.before = activePhotoId,
                              !.streak = NavStreak(op)]
    /\ UNCHANGED <<callVars, reactVars, isFormedRef, activeMonthRef, cameraActiveRef,
                   gestureRecognizerRef, camVars, uploadVars, timeVars,
                   entryGap>>
    /\ UNCHANGED <<sceneVars, pointer>>

\* mutant of HandleNextWithin: the next id is not reduced modulo PHOTO_COUNT
HandleNextNoWrap(limit) ==
    /\ uiActiveId # NoPhoto
    /\ navs < limit
    /\ navs' = navs + 1
    /\ Carousel("next", activePhotoId + 1)

\* the buttons are rendered while uiActiveId !== -1; limit bounds the
\* next/prev clicks explored
HandleNextWithin(limit) ==
    /\ uiActiveId # NoPhoto
    /\ navs < limit
    /\ navs' = navs + 1
    /\ Carousel("next", (activePhotoId + 1) % PHOTO_COUNT)

HandlePrevWithin(limit) ==
    /\ uiActiveId # NoPhoto
    /\ navs < limit
    /\ navs' = navs + 1
    /\ Carousel("prev", (activePhotoId - 1 + PHOTO_COUNT) % PHOTO_COUNT)

HandleNext == HandleNextWithin(MaxNav)

HandlePrev == HandlePrevWithin(MaxNav)

HandleClose ==
    /\ uiActiveId # NoPhoto
    /\ UNCHANGED navs
    /\ Carousel("close", NoPhoto)

\* --------------------------------------------------------------------------
\* Selection in the App.tsx variant
\* --------------------------------------------------------------------------
\* targetId of handleRaycast (App.tsx): direct hit, else magnetism on every
\* viewport width
TargetIdApp(tap) ==
    LET direct == DirectHit(tap)
    IN  IF direct = NoPhoto
        THEN Magnetism(1, tap, MagnetThresholdApp, NoPhoto) ELSE direct

\* mutant of HandleRaycastApp: a resolved target is always selected
HandleRaycastAppSet(tap) ==
    LET targetId == TargetIdApp(tap)
    IN  /\ activePhotoId' = targetId
        /\ pending' = SetState(pending, "uiActiveId", uiActiveId, targetId)
        /\ last' = [NoLast EXCEPT
                      !.op = "clickApp", !.x = tap.x, !.width = tap.width,
                      !.target = targetId, !.before = activePhotoId,
                      !.streak = Streak("clickApp", targetId)]
        /\ UNCHANGED <<callVars, reactVars, isFormedRef, activeMonthRef, cameraActiveRef,
                       gestureRecognizerRef, camVars, uploadVars, timeVars,
                       navs, entryGap>>
        /\ UNCHANGED sceneVars

\* handleRaycast (App.tsx), reached from onPointerUp for a tap: a resolved
\* target toggles the selection, no target clears it; the pointer
\* interaction is left to the caller
HandleRaycastApp(tap) ==
    LET targetId == TargetIdApp(tap)
        newId == IF targetId # NoPhoto
                 THEN (IF activePhotoId = targetId THEN NoPhoto ELSE targetId)
                 ELSE NoPhoto
    IN  /\ activePhotoId' = newId
        /\ pending' = SetState(pending, "uiActiveId", uiActiveId, newId)
        /\ last' = [NoLast EXCEPT
                      !.op = "clickApp", !.x = tap.x, !.width = tap.width,
                      !.target = targetId, !.before = activePhotoId,
                      !.streak = Streak("clickApp", targetId)]
        /\ UNCHANGED <<callVars, reactVars, isFormedRef, activeMonthRef, cameraActiveRef,
                       gestureRecognizerRef, camVars, uploadVars, timeVars,
                       navs, entryGap>>
        /\ UNCHANGED sceneVars

\* a tap of the App.tsx variant, taken by itself
OnTapApp(tap) == HandleRaycastApp(tap) /\ UNCHANGED pointer

\* onPointerUp (App.tsx) for the interaction in progress, delivered as the
\* event that takes the interaction to stage
PointerUpApp(stage) ==
    /\ mounted
    /\ pointer' = [pointer EXCEPT !.stage = stage]
    /\ IF IsTap(pointer.held, pointer.move)
       THEN HandleRaycastApp(pointer.tap)
       ELSE /\ last' = [NoLast EXCEPT !.op = "pointerup",
                                      !.before = activePhotoId]
            /\ UNCHANGED <<callVars, reactVars, pending, refVars, camVars, uploadVars,
                           timeVars, navs, entryGap, sceneVars>>

\* the pointerup event (App.tsx)
OnPointerUpApp == pointer.stage = 1 /\ PointerUpApp(2)

\* the touchend event (App.tsx), after the pointerup event if that is
\* delivered
OnTouchEndApp == pointer.stage \in {1, 2} /\ PointerUpApp(3)

\* --------------------------------------------------------------------------
\* Upload
\* --------------------------------------------------------------------------
\* month of file.lastModified of the sample files
FileMonths == {3}
\* a file: whether the image decodes, and its month
Files == [decodes : BOOLEAN, month : FileMonths]

RECURSIVE SeqsUpTo(_, _)
SeqsUpTo(S, n) ==
    IF n = 0 THEN {<<>>}
    ELSE LET shorter == SeqsUpTo(S, n - 1)
         IN  shorter \cup {Append(q, e) : q \in shorter, e \in S}

\* every load or error event of the batch in flight has fired
UploadSettled == upload.fired = 1..Len(upload.files)

\* the file input's change event with a non-empty file list
HandleUpload(files) ==
    /\ Len(files) > 0
    /\ UploadSettled
    /\ uploads < MaxUploads
    /\ uploads' = uploads + 1
    /\ upload' = [files |-> files, fired |-> {}, newItems |-> <<>>,
                  loadedCount |-> 0,
                  base |-> Len(userTextures) + Len(pending.userTextures)]
    /\ last' = [NoLast EXCEPT !.op = "upload"]
    /\ UNCHANGED <<callVars, reactVars, pending, refVars, camVars, timeVars, navs,
                   entryGap>>
    /\ UNCHANGED <<sceneVars, pointer>>

\* img.onload of file i: the texture is collected; the batch is handed to
\* React when loadedCount reaches files.length
ImgOnload(i) ==
    /\ i \in 1..Len(upload.files)
    /\ i \notin upload.fired
    /\ upload.files[i].decodes
    /\ LET newItems == Append(upload.newItems, upload.files[i].month)
           loadedCount == upload.loadedCount + 1
       IN  /\ upload' = [upload EXCEPT !.fired = @ \cup {i},
                                       !.newItems = newItems,
                                       !.loadedCount = loadedCount]
           /\ pending' =
                 IF loadedCount = Len(upload.files)
                 THEN [pending EXCEPT !.userTextures = @ \o newItems,
                                      !.sceneReady = ~@]
                 ELSE pending
    /\ last' = [NoLast EXCEPT !.op = "imgOnload"]
    /\ UNCHANGED <<callVars, reactVars, refVars, camVars, uploads, timeVars, navs,
                   entryGap>>
    /\ UNCHANGED <<sceneVars, pointer>>

\* the image of file i fails to decode: no onerror handler is set
ImgOnerror(i) ==
    /\ i \in 1..Len(upload.files)
    /\ i \notin upload.fired
    /\ ~upload.files[i].decodes
    /\ upload' = [upload EXCEPT !.fired = @ \cup {i}]
    /\ last' = [NoLast EXCEPT !.op = "imgOnerror"]
    /\ UNCHANGED <<callVars, reactVars, pending, refVars, camVars, uploads, timeVars,
                   navs, entryGap>>
    /\ UNCHANGED <<sceneVars, pointer>>

\* --------------------------------------------------------------------------
\* Specifications
\* --------------------------------------------------------------------------
\* part_000: gestures and camera, with taps on a wide viewport
TapsWide == [x : {5, 90}, width : {MobileWidth}]

Next ==
    \/ LoadModelOk
    \/ LoadModelFail
    \/ EnableCam
    \/ GumResolve
    \/ GumReject
    \/ LoadedData
    \/ \E results \in Results : Animate(results, 0)
    \/ Tick
    \/ Commit
    \/ \E tap \in TapsWide : OnMouseClick(tap, 0)
    \/ HandleNext
    \/ HandlePrev
    \/ HandleClose

Spec == Init /\ [][Next]_vars

\* part_000: selection on every sample tap, camera off
NextSelect ==
    \/ \E tap \in Taps, r \in RandomNums : OnMouseClick(tap, r)
    \/ HandleNext
    \/ HandlePrev
    \/ HandleClose
    \/ Commit

SpecSelect == Init /\ [][NextSelect]_vars

\* part_000: upload of image batches
NextUpload ==
    \/ \E files \in SeqsUpTo(Files, MaxFiles) : HandleUpload(files)
    \/ \E i \in 1..MaxFiles : ImgOnload(i)
    \/ \E i \in 1..MaxFiles : ImgOnerror(i)
    \/ Commit

SpecUpload == Init /\ [][NextUpload]_vars

\* App.tsx: selection
NextApp ==
    \/ \E tap \in Taps : OnTapApp(tap)
    \/ HandleNext
    \/ HandlePrev
    \/ HandleClose
    \/ Commit

SpecApp == Init /\ [][NextApp]_vars

\* part_000: the finger count of every sample landmark list
InitCount == Mounted /\ fnArgs \in CountInputs /\ fnResult = -1

NextCount == CountFingers

SpecCount == InitCount /\ [][NextCount]_vars

\* --------------------------------------------------------------------------
\* The progress controller under a constant target
\* --------------------------------------------------------------------------
\* a progress value and a target; fnResult is the sequence of values the
\* uniform takes, the starting value first
ProgressInputs == [p : 0..ProgressOne, target : {0, ProgressOne}]

\* the star update of one frame, delta after the frame before
ProgressFrame(delta) ==
    /\ Len(fnResult) <= MaxFrames
    /\ fnResult' = Append(fnResult,
                          Lerp(fnResult[Len(fnResult)], fnArgs.target, delta))
    /\ UNCHANGED <<reactVars, pending, refVars, camVars, uploadVars, timeVars,
                   navs, last, entryGap, sceneVars, pointer, fnArgs>>

InitProgress == Mounted /\ fnArgs \in ProgressInputs /\ fnResult = <<fnArgs.p>>

NextProgress == \E delta \in 0..MaxDelta : ProgressFrame(delta)

SpecProgress == InitProgress /\ [][NextProgress]_vars

\* --------------------------------------------------------------------------
\* generateTextLayout
\* --------------------------------------------------------------------------
\* new THREE.Vector3(), in hundredths of a world unit
Origin == [x |-> 0, y |-> 0, z |-> 0]

\* the point pushed for a lit sample at canvas pixel (x, y)
SamplePoint(px) ==
    [x |-> (px.x * 7500) \div CanvasWidth - 3750,
     y |-> 1750 - (px.y * 3500) \div CanvasHeight,
     z |-> 0]

\* the sampling loops: the lit samples in scan order
RECURSIVE SamplePoints(_)
SamplePoints(lit) ==
    IF lit = <<>> THEN <<>>
    ELSE <<SamplePoint(Head(lit))>> \o SamplePoints(Tail(lit))

\* the shuffle loop from index i (from zero) down to 1; draws[i] is
\* Math.floor(Math.random() * (i + 1))
RECURSIVE Shuffle(_, _, _)
Shuffle(points, draws, i) ==
    IF i < 1 THEN points
    ELSE LET j == draws[i]
             swapped == [points EXCEPT ![i + 1] = points[j + 1],
                                       ![j + 1] = points[i + 1]]
         IN  Shuffle(swapped, draws, i - 1)

\* generateTextLayout(text, count): ctx is whether getContext('2d') returned
\* a context, lit the samples of the rasterized text brighter than 100,
\* draws the shuffle's random indices, jitter the random offsets per point
GenerateTextLayout(in) ==
    IF ~in.ctx THEN <<>>
    ELSE LET points == Shuffle(SamplePoints(in.lit), in.draws, Len(in.lit) - 1)
         IN  IF Len(points) = 0
             THEN [i \in 1..in.count |-> Origin]
             ELSE [i \in 1..in.count |->
                     LET p == points[((i - 1) % Len(points)) + 1]
                     IN  [x |-> p.x + in.jitter[i].x,
                          y |-> p.y + in.jitter[i].y,
                          z |-> in.jitter[i].z]]

\* sample rasters: no lit sample, one, two
Rasters ==
    {<<>>,
     <<[x |-> 512, y |-> 256]>>,
     <<[x |-> 0, y |-> 0],
       [x |-> CanvasWidth - SampleStep, y |-> CanvasHeight - SampleStep]>>}

\* the index draws the shuffle can make on n points
RECURSIVE ShuffleDraws(_)
ShuffleDraws(n) ==
    IF n <= 1 THEN {<<>>}
    ELSE {Append(d, j) : d \in ShuffleDraws(n - 1), j \in 0..(n - 1)}

\* (Math.random() - 0.5) * 0.1 at its extremes, in hundredths
Jitters == {-5, 4}

LayoutInputs ==
    {[ctx |-> c, lit |-> l, draws |-> d, count |-> n, jitter |-> j] :
        c \in BOOLEAN, l \in Rasters, d \in ShuffleDraws(MaxPoints),
        n \in 0..MaxCount,
        j \in [1..MaxCount -> [x : Jitters, y : Jitters, z : Jitters]]}

\* one call of generateTextLayout on the arguments in fnArgs; the returned
\* array is kept as the only element of fnResult
LayoutCall ==
    /\ fnResult = <<>>
    /\ fnResult' = <<GenerateTextLayout(fnArgs)>>
    /\ UNCHANGED <<reactVars, pending, refVars, camVars, uploadVars, timeVars,
                   navs, last, entryGap, sceneVars, pointer, fnArgs>>

InitLayout == Mounted /\ fnArgs \in LayoutInputs /\ fnResult = <<>>

NextLayout == LayoutCall

SpecLayout == InitLayout /\ [][NextLayout]_vars

\* part_000: pointer interactions with their pointerup, touchend and click
\* events, camera off
NextPointer ==
    \/ \E i \in Interactions : OnPointerDown(i)
    \/ OnPointerUp(0)
    \/ OnTouchEnd(0)
    \/ OnClick(0)
    \/ Commit

SpecPointer == Init /\ [][NextPointer]_vars

\* the carousel from every photo: fnArgs is the photo the random fallback of
\* a first tap selects; the tap misses every photo on a narrow viewport
InitCarousel == Mounted /\ fnArgs \in 0..(PHOTO_COUNT - 1) /\ fnResult = -1

SelectRandom ==
    /\ last.op = "mount"
    /\ OnMouseClick([x |-> 90, width |-> 375], 2 * fnArgs)

\* a click on a carousel button is a discrete event: React renders its
\* update before the next click is handled.  prev is explored as the first
\* or second click, next up to PHOTO_COUNT times
OnNextClick == pending = NoPending /\ HandleNextWithin(PHOTO_COUNT)

OnPrevClick == pending = NoPending /\ HandlePrevWithin(2)

NextCarousel ==
    \/ SelectRandom
    \/ Commit
    \/ OnNextClick
    \/ OnPrevClick

SpecCarousel == InitCarousel /\ [][NextCarousel]_vars

\* App.tsx: the events of one pointer interaction after another
NextPointerApp ==
    \/ \E i \in Interactions : OnPointerDown(i)
    \/ OnPointerUpApp
    \/ OnTouchEndApp
    \/ Commit

SpecPointerApp == Init /\ [][NextPointerApp]_vars

\* frame deltas, in half-lives of the progress decay
Deltas == {0, 1}

\* recognizer results of the scene specification: no hand, or one hand with
\* no finger extended and the index fingertip at x = 5 or x = 7 tenths
SceneResults ==
    {[gestures |-> <<>>, landmarks |-> <<>>]}
    \cup {[gestures |-> <<g>>, landmarks |-> <<HandAt(0, x, 5)>>] :
             g \in {"Closed_Fist", "Open_Palm"}, x \in {5, 7}}

\* part_000: the animation loop with frame deltas and hand positions, one
\* camera session, and the upload of one image
NextScene ==
    \/ LoadModelOk
    \/ EnableCam
    \/ GumResolve
    \/ LoadedData
    \/ \E results \in SceneResults, delta \in Deltas : Animate(results, delta)
    \/ \E delta \in Deltas : AnimateIdle(delta)
    \/ Tick
    \/ Commit
    \/ \E month \in FileMonths :
          HandleUpload(<<[decodes |-> TRUE, month |-> month]>>)
    \/ ImgOnload(1)

SpecScene == Init /\ [][NextScene]_vars

\* part_000: camera sessions, two getUserMedia calls, and unmount
NextCam ==
    \/ LoadModelOk
    \/ LoadModelFail
    \/ EnableCamWithin(MaxCamStreams)
    \/ GumResolve
    \/ GumReject
    \/ LoadedData
    \/ Commit
    \/ Unmount

SpecCam == Init /\ [][NextCam]_vars

\* part_000: the animation loop across scene rebuilds (camera on and off,
\* an upload completing) and unmount
NextLoop ==
    \/ LoadModelOk
    \/ EnableCam
    \/ GumResolve
    \/ LoadedData
    \/ Commit
    \/ \E month \in FileMonths :
          HandleUpload(<<[decodes |-> TRUE, month |-> month]>>)
    \/ ImgOnload(1)
    \/ \E results \in SceneResults, delta \in Deltas : Animate(results, delta)
    \/ \E delta \in Deltas : AnimateIdle(delta)
    \/ Tick
    \/ Unmount

SpecLoop == Init /\ [][NextLoop]_vars

\* --------------------------------------------------------------------------
\* One fist, then no further gesture
\* --------------------------------------------------------------------------
\* a frame with no hand
EmptyResult == [gestures |-> <<>>, landmarks |-> <<>>]

\* Closed_Fist frames: one hand, no finger or two fingers counted, the index
\* fingertip at x = 5 or x = 7 tenths
FistResults ==
    {[gestures |-> <<"Closed_Fist">>, landmarks |-> <<HandAt(k, x, 5)>>] :
        k \in {0, 2}, x \in {5, 7}}

\* frame deltas of the scenario, in half-lives
FistDeltas == 0..MaxDelta

\* Start Camera, never Stop Camera
CamOn == ~cameraActive /\ EnableCamWithin(1)

\* the one Closed_Fist frame of the scenario
FistFrameOnce(delta) ==
    /\ ~isFormed /\ pending.isFormed = <<>>
    /\ \E results \in FistResults : Animate(results, delta)

\* an animation tick one half-life after the tick before it, no hand in view
QuietFrame == Animate(EmptyResult, 1) \/ AnimateIdle(1)

NextFist ==
    \/ LoadModelOk
    \/ CamOn
    \/ GumResolve
    \/ LoadedData
    \/ Tick
    \/ Commit
    \/ \E delta \in FistDeltas : FistFrameOnce(delta)
    \/ \E delta \in FistDeltas : Animate(EmptyResult, delta)
    \/ \E delta \in FistDeltas : AnimateIdle(delta)

\* React renders queued updates; requestAnimationFrame keeps calling animate
SpecFist ==
    Init /\ [][NextFist]_vars /\ WF_vars(Commit) /\ WF_vars(QuietFrame)

\* --------------------------------------------------------------------------
\* Animation ticks, clock steps and camera frames
\* --------------------------------------------------------------------------
\* part_000: one camera session in which the display's animation ticks, the
\* millisecond clock and the camera's frames advance independently
NextGuard ==
    \/ LoadModelOk
    \/ CamOn
    \/ GumResolve
    \/ LoadedData
    \/ Commit
    \/ Tick
    \/ VideoFrame
    \/ \E results \in SceneResults : Animate(results, 0)
    \/ \E delta \in Deltas : AnimateIdle(delta)

SpecGuard == Init /\ [][NextGuard]_vars

\* --------------------------------------------------------------------------
\* Claims
\* --------------------------------------------------------------------------
\* C1: two finger-count signals that are applied less than the cooldown
\* apart, with no fist or palm between them, do not both change the
\* category: the gap between two applied signals is at least the cooldown.
C1_DebounceOneTransition == entryGap # -1 => entryGap >= CooldownMs

\* the last frame's top gesture was Closed_Fist while it read formed = false
\* or an active category
FistFrame ==
    last.gesture = "Closed_Fist" /\ (~last.fRef \/ last.mRef # Null)

\* C2: once the updates of a Closed_Fist frame that read formed = false or an
\* active category are committed, formed = true and no category is active,
\* whatever finger count the frame computed; the frame resets the transition
\* time to now.
C2_FistAlwaysWins ==
    /\ (last.op = "frame" /\ FistFrame /\ ~videoTimeFresh)
          => sinceStateChange = 0
    /\ (last.op = "commit" /\ last.of = "frame" /\ FistFrame)
          => (isFormed /\ activeMonth = Null)

\* C2 witness: a fist frame that was also entitled to select a month has
\* been committed
C2_Witness ==
    /\ last.op = "commit" /\ last.of = "frame" /\ FistFrame
    /\ last.sel # -1
    /\ isFormed /\ activeMonth = Null

\* C3: in every committed state (no update queued, effects run) an active
\* category implies formed = false.
C3_FilmExcludesFormed ==
    pending = NoPending => (activeMonth # Null => ~isFormed)

\* C3 witness: a committed film-mode state
C3_Witness ==
    /\ pending = NoPending /\ last.op = "commit"
    /\ activeMonth # Null /\ ~isFormed

\* C4: a frame that reads formed = false, an elapsed cooldown and a finger
\* count c in 1..12 other than the active category, and whose gesture is not
\* Closed_Fist, makes the category c once committed, and formed stays false.
C4_CategoryEntry ==
    (last.op = "commit" /\ last.of = "frame"
        /\ last.gesture # "Closed_Fist" /\ last.sel # -1)
      => (activeMonth = last.sel /\ ~isFormed)

\* C4 witness: the second of two signals more than the cooldown apart has
\* been committed
C4_Witness ==
    /\ last.op = "commit" /\ last.of = "frame"
    /\ last.gesture # "Closed_Fist" /\ last.sel # -1
    /\ last.mRef # Null
    /\ entryGap > CooldownMs
    /\ activeMonth = last.sel

\* the files of a batch that decode
RECURSIVE Decoded(_)
Decoded(files) ==
    IF files = <<>> THEN 0
    ELSE (IF Head(files).decodes THEN 1 ELSE 0) + Decoded(Tail(files))

\* C5: when every load event of a batch has fired and the updates are
\* committed, exactly as many textures were appended as files decoded.
C5_UploadSkipsBadFiles ==
    (upload.files # <<>> /\ UploadSettled /\ pending = NoPending)
      => Len(userTextures) = upload.base + Decoded(upload.files)

\* C6: a tap that resolves to no target leaves the selection as it was (both
\* variants).
C6_MissKeepsSelection ==
    (last.op \in {"click", "clickApp"} /\ last.target = NoPhoto)
      => activePhotoId = last.before

\* the photos whose projected position is exactly x
PhotosAt(x) ==
    {i \in 1..Len(Layout) : ~isDeco(Layout[i].id) /\ Layout[i].x = x}

\* the mesh of Layout[i] is the nearest one under a tap at its position
Nearest(i) ==
    \A j \in 1..Len(Layout) :
        Layout[j].x = Layout[i].x => Layout[i].depth <= Layout[j].depth

\* C7 as claimed: outside film mode a tap at the projected position of a
\* photo selects that photo, whatever else lies along the ray.
C7_TapSelectsPhoto ==
    (last.op = "click" /\ last.mRef = Null)
      => \A i \in PhotosAt(last.x) : activePhotoId = Layout[i].id

\* C7 as amended: outside film mode a tap at the projected position of a
\* photo whose mesh is the nearest one the ray hits selects that photo, on
\* wide and narrow viewports alike.
C7_TapSelectsNearestPhoto ==
    (last.op = "click" /\ last.mRef = Null)
      => \A i \in PhotosAt(last.x) :
            Nearest(i) => activePhotoId = Layout[i].id

\* C7 witness: the nearest of two photos on one ray was tapped and selected
C7_Witness ==
    /\ last.op = "click" /\ last.mRef = Null
    /\ \E i \in PhotosAt(last.x) :
          /\ Nearest(i)
          /\ \E j \in PhotosAt(last.x) : j # i
          /\ activePhotoId = Layout[i].id

\* C8: (part_000) after a tap resolves to photo T the selection is T, for
\* the first and for the second tap in a row that resolves to T.
C8_SelectionIsSet ==
    (last.op = "click" /\ last.target # NoPhoto /\ last.streak \in {1, 2})
      => activePhotoId = last.target

\* C8 witness: two taps in a row resolved to the same photo
C8_Witness ==
    /\ last.op = "click" /\ last.target # NoPhoto /\ last.streak = 2
    /\ last.before = last.target
    /\ activePhotoId = last.target

\* C9: while a category filter is active (activeMonthRef != null) a tap
\* leaves the selection as it was.
C9_FilmModeIgnoresTaps ==
    (last.op = "click" /\ last.mRef # Null) => activePhotoId = last.before

\* C9 witness: a tap on a photo was handled in film mode
C9_Witness ==
    /\ last.op = "click" /\ last.mRef # Null
    /\ PhotosAt(last.x) # {}
    /\ activePhotoId = last.before

\* C10: after the camera is toggled off and the updates are committed, the
\* mode state is at its defaults.
C10_TeardownResetsMode ==
    (last.op = "commit" /\ last.of = "camOff")
      => (~isFormed /\ activeMonth = Null /\ activePhotoId = NoPhoto)


\* every stream acquired has had its tracks stopped
AllStopped == \A i \in 1..Len(streams) : ~streams[i]

\* C11: whenever the camera has just been toggled off, or the component is
\* unmounted, every media stream acquired via getUserMedia has been stopped.
C11_StreamsReleased ==
    (last.op = "camOff" \/ ~mounted) => AllStopped


\* targetP as the animation loop reads it
TargetP == IF isFormedRef THEN ProgressOne ELSE 0

\* C12: in every step that does not switch the camera on or off the progress
\* value stays where it is or moves toward its target without passing it; it
\* is never reset, in particular not when an upload completes or the scene is
\* rebuilt while formed = true.
C12_ProgressContinuity ==
    [][ \/ cameraActive' # cameraActive
        \/ uProgress' = uProgress
        \/ (uProgress < uProgress' /\ uProgress' <= TargetP)
        \/ (TargetP <= uProgress' /\ uProgress' < uProgress) ]_vars


\* C13: outside film mode, once a pointer interaction that moved 30 px or
\* more, or lasted 300 ms or more, has delivered any of its pointerup,
\* touchend and click events, the selection is what it was at the press.
C13_DragNeverSelects ==
    (pointer.stage \in {2, 3, 4} /\ ~pointer.film
        /\ (pointer.move >= TapMovePx \/ pointer.held >= TapHoldMs))
      => activePhotoId = pointer.before


\* the step is a processed frame whose top gesture is name
FrameStep(name) ==
    videoTimeFresh /\ ~videoTimeFresh' /\ last'.gesture = name

\* C14: a processed Open_Palm frame that reads formed = true queues
\* formed = false and resets the transition time; one that reads
\* formed = false changes neither the queued value of formed nor the
\* transition time.
C14_PalmOnlyFromFormed ==
    [][ FrameStep("Open_Palm") =>
          IF isFormedRef
          THEN /\ Rendered(isFormed, pending'.isFormed) = FALSE
               /\ sinceStateChange' = 0
          ELSE /\ pending'.isFormed = pending.isFormed
               /\ sinceStateChange' = sinceStateChange ]_vars

\* C14 witness: an Open_Palm frame has just scattered the formed state
C14_Witness ==
    /\ last.op = "frame" /\ last.gesture = "Open_Palm" /\ last.fRef
    /\ ~videoTimeFresh
    /\ isFormed /\ pending.isFormed = <<FALSE>>
    /\ sinceStateChange = 0

\* C15: while film mode is active with the camera on, once an Open_Palm
\* frame is committed no category is active.
C15_PalmExitsFilmMode ==
    (last.op = "commit" /\ last.of = "frame" /\ last.gesture = "Open_Palm"
        /\ last.mRef # Null)
      => activeMonth = Null


\* the number of digits of a hand whose tip is above the joint below it
Extended(hand) ==
    Cardinality({d \in 1..5 : hand[Digits[d].tip].y < hand[Digits[d].joint].y})

\* the total the finger-count mapping assigns to per-hand counts c1 and c2
MappedTotal(c1, c2) ==
    IF c1 = 1 /\ c2 = 1 THEN 11
    ELSE IF {c1, c2} = {1, 2} THEN 12
    ELSE c1 + c2

\* C16: the total computed for two hands with counts c1 and c2 is 11 when
\* c1 = c2 = 1, 12 when {c1, c2} = {1, 2} and c1 + c2 otherwise; for one hand
\* it is c1; no total exceeds 12 and every value 1..12 is the total of some
\* input.
C16_FingerCountMapping ==
    /\ fnResult # -1 =>
          /\ fnResult = IF Len(fnArgs) = 2
                        THEN MappedTotal(Extended(fnArgs[1]),
                                         Extended(fnArgs[2]))
                        ELSE Extended(fnArgs[1])
          /\ fnResult \in 0..12
    /\ \A v \in 1..12 : \E input \in CountInputs : TotalCount(input) = v

\* C16 witness: the total of a hand with one finger and a hand with two
C16_Witness ==
    /\ Len(fnArgs) = 2
    /\ Extended(fnArgs[1]) = 1 /\ Extended(fnArgs[2]) = 2
    /\ fnResult = 12


\* none, or a month
Categories == {Null} \cup 1..12

\* the sample results with hands whose finger total is outside 1..12
OutOfRange ==
    {results \in Results :
        Len(results.landmarks) > 0
          /\ TotalCount(results.landmarks) \notin 1..12}

\* C17: the category, rendered, queued or in its ref, is always none or an
\* integer in 1..12, and in every reachable state a frame whose finger total
\* is outside 1..12 gets no category update from the month selection.
C17_CategoryInRange ==
    /\ activeMonth \in Categories
    /\ activeMonthRef \in Categories
    /\ \A i \in 1..Len(pending.activeMonth) :
          pending.activeMonth[i] \in Categories
    /\ \A results \in OutOfRange : Rule1(pending, results) = pending

\* C17 witness: a frame with no finger extended was processed with formed
\* false, no category and the cooldown elapsed, and queued no category
C17_Witness ==
    /\ last.op = "frame" /\ last.gesture = "Victory"
    /\ ~last.fRef /\ last.mRef = Null /\ last.sel = -1
    /\ sinceStateChange > CooldownMs
    /\ pending.activeMonth = <<>> /\ activeMonth = Null


\* a step in which the gesture branch of animate ran on a result with an
\* empty gesture list
EmptyFrameStep ==
    /\ videoTimeFresh /\ ~videoTimeFresh'
    /\ last'.op = "frame" /\ last'.gesture = NoLast.gesture

\* C18: a processed frame with no hands sets the gesture status to "None" and
\* changes none of formed, the category, the selected photo (each rendered,
\* queued or in its ref), the transition time or the hand pointer position.
C18_NoHandsFrame ==
    [][EmptyFrameStep =>
          /\ last'.status = <<"None">>
          /\ UNCHANGED <<isFormed, isFormedRef, activeMonth, activeMonthRef,
                         activePhotoId, uiActiveId, pending,
                         sinceStateChange, handPos>>]_vars

\* C18 witness: a frame with no hands has just been processed while formed
\* was true and the hand pointer was off centre
C18_Witness ==
    /\ last.op = "frame" /\ last.gesture = NoLast.gesture
    /\ last.status = <<"None">>
    /\ ~videoTimeFresh
    /\ isFormedRef
    /\ handPos.x # 0


\* none, or the id of a photo
PhotoIds == {NoPhoto} \cup 0..(PHOTO_COUNT - 1)

\* C19: in every reachable state the selected id, in interactionState, in the
\* rendered uiActiveId and in every queued update of it, is none or the id of a
\* photo; never an ornament's id or any other number.
C19_SelectionIsPhoto ==
    /\ activePhotoId \in PhotoIds
    /\ uiActiveId \in PhotoIds
    /\ \A i \in 1..Len(pending.uiActiveId) : pending.uiActiveId[i] \in PhotoIds

\* C19 witness: a tap on an ornament on a narrow viewport with nothing
\* selected was resolved by the random fallback to the last photo
C19_Witness ==
    /\ last.op = "click"
    /\ \E i \in 1..Len(Layout) :
          /\ Layout[i].x = last.x
          /\ Layout[i].id >= PHOTO_COUNT
          /\ \A j \in 1..Len(Layout) :
                Layout[j].x = last.x => Layout[j].depth >= Layout[i].depth
    /\ last.width < MobileWidth
    /\ last.before = NoPhoto
    /\ activePhotoId = PHOTO_COUNT - 1


\* the nearest mesh under a tap at x, if any, is not a photo
NoDirectPhotoHit(x) ==
    \A i \in 1..Len(Layout) :
        (Layout[i].x = x /\ Nearest(i)) => Layout[i].id >= PHOTO_COUNT

\* the photos projected strictly within the magnetism threshold of x
PhotosNear(x) ==
    {i \in 1..Len(Layout) :
        Layout[i].id < PHOTO_COUNT /\ Abs(Layout[i].x - x) < MagnetThreshold}

\* C20: outside film mode, after a tap with no direct photo hit: on a narrow
\* viewport, if some photo is projected within 0.15 of the tap, the tap
\* selected a photo within 0.15 that no other photo is closer than; on a wide
\* viewport the tap resolved to nothing and the selection is as before.
C20_MagnetismFallback ==
    (last.op = "click" /\ last.mRef = Null /\ NoDirectPhotoHit(last.x))
      => IF last.width < MobileWidth
         THEN PhotosNear(last.x) # {}
                => \E i \in PhotosNear(last.x) :
                      /\ last.target = Layout[i].id
                      /\ activePhotoId = Layout[i].id
                      /\ \A j \in PhotosNear(last.x) :
                            Abs(Layout[i].x - last.x) <= Abs(Layout[j].x - last.x)
         ELSE last.target = NoPhoto /\ activePhotoId = last.before

\* C20 witness: a narrow-viewport tap on empty space with two photos within
\* the threshold selected the closer one, which is not the first in order
C20_Witness ==
    /\ last.op = "click" /\ last.mRef = Null
    /\ last.width < MobileWidth
    /\ \A i \in 1..Len(Layout) : Layout[i].x # last.x
    /\ \E i, j \in PhotosNear(last.x) :
          /\ j < i
          /\ Abs(Layout[i].x - last.x) < Abs(Layout[j].x - last.x)
          /\ activePhotoId = Layout[i].id

\* C20 witness, wide viewport: a tap on an ornament with a photo selected
\* left the selection as it was
C20_WideKeeps ==
    /\ last.op = "click" /\ last.mRef = Null
    /\ last.width >= MobileWidth
    /\ NoDirectPhotoHit(last.x) /\ PhotosNear(last.x) # {}
    /\ last.before # NoPhoto /\ activePhotoId = last.before


\* a tap at x has neither a direct photo hit nor a photo within the threshold
NothingToHit(x) == NoDirectPhotoHit(x) /\ PhotosNear(x) = {}

\* C21: outside film mode, a tap that resolved to a photo with neither a
\* direct photo hit nor a photo within the threshold was on a narrow viewport
\* with nothing selected, and selected an id in 0..PHOTO_COUNT-1; the same tap
\* on a narrow viewport with a photo selected resolved to nothing and left
\* the selection as it was.
C21_RandomFallback ==
    (last.op = "click" /\ last.mRef = Null /\ NothingToHit(last.x))
      => /\ last.target # NoPhoto
              => /\ last.width < MobileWidth
                 /\ last.before = NoPhoto
                 /\ last.target \in 0..(PHOTO_COUNT - 1)
                 /\ activePhotoId = last.target
         /\ (last.width < MobileWidth /\ last.before # NoPhoto)
              => (last.target = NoPhoto /\ activePhotoId = last.before)

\* C21 witness: a narrow-viewport tap on empty space with nothing selected
\* selected the photo drawn at random
C21_Witness ==
    /\ last.op = "click" /\ last.mRef = Null /\ NothingToHit(last.x)
    /\ \A i \in 1..Len(Layout) : Layout[i].x # last.x
    /\ last.width < MobileWidth /\ last.before = NoPhoto
    /\ last.target = PHOTO_COUNT \div 2
    /\ activePhotoId = last.target


\* C22: after a click on next or prev with nothing selected, nothing is
\* selected; with a photo selected, another photo is; after a click on close
\* nothing is selected.  The id React will render agrees in each case.
C22_NavigationNeedsSelection ==
    /\ last.op \in {"next", "prev"}
         => /\ IF last.before = NoPhoto
               THEN activePhotoId = NoPhoto
               ELSE /\ activePhotoId \in 0..(PHOTO_COUNT - 1)
                    /\ activePhotoId # last.before
            /\ Rendered(uiActiveId, pending.uiActiveId) = activePhotoId
    /\ last.op = "close"
         => /\ activePhotoId = NoPhoto
            /\ Rendered(uiActiveId, pending.uiActiveId) = NoPhoto

\* C22 witness: prev was clicked while the buttons were still rendered but
\* the selection had already been cleared, and nothing is selected
C22_Witness ==
    /\ last.op = "prev" /\ last.before = NoPhoto
    /\ uiActiveId # NoPhoto
    /\ activePhotoId = NoPhoto

\* C22 witness, with a selection: next moved from the last photo to the first
C22_NextWraps ==
    /\ last.op = "next" /\ last.before = PHOTO_COUNT - 1
    /\ activePhotoId = 0


\* a step in which the camera button was clicked without a recognizer, or a
\* getUserMedia call was rejected
CamUnavailableStep ==
    \/ ~gestureRecognizerRef /\ last'.op = "camNoModel"
    \/ gum' = gum - 1 /\ last'.op = "gumReject"

\* C23: once the recognizer model has failed to load the camera is never
\* active, nor queued to be, and no camera request is made; and a click on
\* the camera button without a recognizer, or a denied camera request, leaves
\* cameraActive, formed, the category, the selection and the video as they
\* were, with the component (and so its animation loop) still mounted.
C23_UnavailableStaysOff ==
    /\ [](loadModel = "failed"
            => /\ ~cameraActive /\ ~cameraActiveRef
               /\ pending.cameraActive = <<>>
               /\ gum = 0 /\ streams = <<>>)
    /\ [][CamUnavailableStep
            => UNCHANGED <<cameraActive, cameraActiveRef, isFormed, isFormedRef,
                           activeMonth, activeMonthRef, activePhotoId,
                           uiActiveId, pending, video, streams, mounted>>]_vars

\* C23 witness: the model failed to load and the camera button was clicked
C23_Witness ==
    /\ loadModel = "failed"
    /\ last.op = "camNoModel"
    /\ mounted /\ ~cameraActive

\* C23 witness, permission denied: the only camera request was rejected
C23_Denied ==
    /\ loadModel = "ready"
    /\ last.op = "gumReject"
    /\ gum = 0 /\ streams = <<>>
    /\ mounted /\ ~cameraActive /\ pending.cameraActive = <<>>


\* C24: a call of generateTextLayout(text, N) returns exactly N points, all
\* of them the origin when rasterization gave no sample, whether or not the
\* 2D context could be obtained.
C24_LayoutHasCountPoints ==
    Len(fnResult) = 1
      => /\ Len(fnResult[1]) = fnArgs.count
         /\ fnArgs.lit = <<>>
              => \A i \in 1..Len(fnResult[1]) : fnResult[1][i] = Origin

\* q lies between p and target, ends included
Toward(p, q, target) ==
    IF p <= target THEN p <= q /\ q <= target ELSE target <= q /\ q <= p

\* C25: under a constant target in {0, 1}, from any progress value in [0, 1]
\* and through frames of any delta >= 0, every value the progress takes is
\* within [0, 1] and lies between the value before it and the target: the
\* sequence is monotonic toward the target and never passes it.
C25_ProgressSafety ==
    /\ \A i \in 1..Len(fnResult) : fnResult[i] \in 0..ProgressOne
    /\ \A i \in 1..(Len(fnResult) - 1) :
          Toward(fnResult[i], fnResult[i + 1], fnArgs.target)

\* C25 witness: from 0 with target 1, three frames have raised the progress
\* each time, to just below 1
C25_Witness ==
    /\ fnArgs.p = 0 /\ fnArgs.target = ProgressOne
    /\ Len(fnResult) = 4
    /\ \A i \in 1..3 : fnResult[i] < fnResult[i + 1]
    /\ fnResult[4] = ProgressOne - 1


\* a Closed_Fist frame has just been processed with formed false
FistProcessed ==
    last.op = "frame" /\ last.gesture = "Closed_Fist" /\ ~last.fRef

\* C26: from formed false, no category and no selection, with one processed
\* Closed_Fist frame and no gesture after it: the queued update waits at most
\* MaxStale clock steps for its render, the category and the selection stay
\* none throughout, and the fist frame leads to formed being true (state and
\* ref) with the progress within one unit of resolution of 1 from then on.
C26_FistScenario ==
    /\ [](pending.isFormed # <<>> => stale <= MaxStale)
    /\ [](activeMonth = Null /\ activeMonthRef = Null /\ activePhotoId = NoPhoto)
    /\ FistProcessed ~> (isFormed /\ isFormedRef)
    /\ FistProcessed ~> [](isFormedRef /\ uProgress >= ProgressOne - 1)

\* C26 witness: after the fist frame formed is true, no category is set and
\* the progress has come within one unit of 1
C26_Witness ==
    /\ isFormed /\ isFormedRef
    /\ activeMonth = Null /\ activePhotoId = NoPhoto
    /\ uProgress = ProgressOne - 1


\* a step in which animate passed the video to recognizeForVideo
RecognizerInvoked == videoTimeFresh /\ ~videoTimeFresh'

\* C27: the recognizer is only ever invoked on a video frame it has not been
\* given before: a frame already processed is skipped by later animation
\* ticks until the camera delivers a new one.
C27_FrameProcessedOnce ==
    [][RecognizerInvoked => ~video.recognized]_vars


\* in a tick that polls the recognizer, the progress is advanced toward the
\* target given by formed as it was before the tick, and the tick leaves the
\* loop's formed as it was
ModeChangeWaits ==
    [][RecognizerInvoked
         => /\ isFormedRef' = isFormedRef
            /\ \E delta \in Deltas : uProgress' = Lerp(uProgress, TargetP, delta)]_vars

AfterFrame == last.op = "frame" /\ ~videoTimeFresh

\* C29: right after a frame, if a category is active the visible entities
\* are exactly the photos of that category, and the selected photo if there
\* is one, with every ornament hidden; if no category is active every photo
\* and every ornament is visible.
C29_VisibilityAfterFrame ==
    AfterFrame
      => IF activeMonth # Null
         THEN \A id \in Entities :
                 id \in last.visible
                   <=> /\ id < PHOTO_COUNT
                       /\ (PhotoMonth(id) = activeMonth \/ id = activePhotoId)
         ELSE last.visible = Entities

\* C29 witness: in film mode for month 2 a frame has left exactly the sample
\* photo of month 2 visible
C29_Witness ==
    /\ AfterFrame
    /\ activeMonth = 2
    /\ last.visible = {1}

\* C29 witness, leaving film mode: everything was hidden but the photos of
\* the month, the fist has been rendered, and a frame has shown all again
C29_AllBack ==
    /\ AfterFrame
    /\ activeMonth = Null /\ isFormed
    /\ last.mRef = Null /\ last.fRef
    /\ last.visible = Entities


\* C30: while the loop reads formed = true no category is active, and a
\* frame that read formed = true leaves no category queued, whatever its
\* finger count and however long after the last transition.
C30_FormedBlocksCounts ==
    /\ isFormedRef => (activeMonth = Null /\ activeMonthRef = Null)
    /\ (AfterFrame /\ last.fRef)
         => Rendered(activeMonth, pending.activeMonth) = Null

\* C30 witness: with formed = true and the cooldown elapsed a frame whose
\* gesture is neither fist nor palm was processed and changed nothing
C30_Witness ==
    /\ AfterFrame /\ last.fRef /\ last.gesture = "Victory"
    /\ sinceStateChange > CooldownMs
    /\ isFormedRef /\ activeMonth = Null /\ pending = NoPending

\* C31: whenever a category is rendered no photo is selected in the
\* interaction state, and once nothing is queued the selection the UI shows
\* is none as well; this includes a tap handled between the setActiveMonth
\* call and the commit that runs the month effect.
C31_NoSelectionInFilmMode ==
    /\ activeMonth # Null => activePhotoId = NoPhoto
    /\ (pending = NoPending /\ activeMonth # Null) => uiActiveId = NoPhoto

\* C31 witness: a tap selected a photo while the category was queued, and
\* the commit that rendered the category cleared the selection
C31_Witness ==
    /\ last.op = "commit" /\ last.of = "click"
    /\ last.mRef = Null /\ last.target # NoPhoto
    /\ activeMonth # Null
    /\ activePhotoId = NoPhoto

\* the step is a tap of the App.tsx variant that resolves to a photo, right
\* after a tap that resolved to the same photo while it was not selected
SecondTapOnSame ==
    /\ last.op = "clickApp" /\ last.target # NoPhoto
    /\ last.before # last.target
    /\ last'.op = "clickApp" /\ last'.target = last.target
    /\ last'.streak = 2

\* C32: (App.tsx) after a tap that resolves to photo T the selection is none
\* if it was T before the tap and T otherwise; the second of two taps in a
\* row that resolve to a T not selected before the first leaves nothing
\* selected.
C32_TapToggles ==
    /\ []((last.op = "clickApp" /\ last.target # NoPhoto)
            => activePhotoId =
                  IF last.before = last.target THEN NoPhoto ELSE last.target)
    /\ [][SecondTapOnSame => activePhotoId' = NoPhoto]_vars

\* C32 witness: two taps in a row resolved to the same photo, the first
\* selected it and the second deselected it
C32_Witness ==
    /\ last.op = "clickApp" /\ last.target # NoPhoto
    /\ last.streak = 2 /\ last.before = last.target
    /\ activePhotoId = NoPhoto

\* a tap on a photo, outside film mode, has delivered one or more of its
\* release events
TapOnPhoto ==
    /\ pointer.stage \in {2, 3, 4}
    /\ IsTap(pointer.held, pointer.move)
    /\ ~pointer.film
    /\ DirectHit(pointer.tap) # NoPhoto

\* C33: (App.tsx) whichever of its release events a tap on a photo has
\* delivered, the selection is what one delivery makes it: the photo, or
\* none if the photo was selected at the press.
C33_TapDeliveredOnce ==
    TapOnPhoto =>
        activePhotoId =
            IF pointer.before = DirectHit(pointer.tap)
            THEN NoPhoto ELSE DirectHit(pointer.tap)

\* C33, part_000: whichever of its release events a tap on a photo has
\* delivered, the photo is selected
C33_TapSelectsOnce == TapOnPhoto => activePhotoId = DirectHit(pointer.tap)

\* a tap on a photo has delivered pointerup, touchend and click (part_000)
C33_AllDelivered ==
    /\ TapOnPhoto /\ pointer.stage = 4
    /\ last.op = "click" /\ last.streak = 2
    /\ activePhotoId = DirectHit(pointer.tap)

\* the last click was on the carousel button op
Clicked(op) == last.op = op \/ (last.op = "commit" /\ last.of = op)

\* C34: from a selected photo p, next selects p + 1, or 0 from the last
\* photo, and prev selects p - 1, or the last photo from 0; a prev right
\* after a next, and a next right after a prev, restore the selection; and
\* after PHOTO_COUNT next clicks in a row the selection is the photo the
\* clicks started from.
C34_CarouselCycle ==
    /\ []((last.op = "next" /\ last.before # NoPhoto) =>
            activePhotoId =
                IF last.before = PHOTO_COUNT - 1 THEN 0 ELSE last.before + 1)
    /\ []((last.op = "prev" /\ last.before # NoPhoto) =>
            activePhotoId =
                IF last.before = 0 THEN PHOTO_COUNT - 1 ELSE last.before - 1)
    /\ []((last.op = "next" /\ last.streak = PHOTO_COUNT) =>
            activePhotoId = fnArgs)
    /\ [][(Clicked("next") /\ last'.op = "prev")
            => activePhotoId' = last.before]_vars
    /\ [][(Clicked("prev") /\ last'.op = "next")
            => activePhotoId' = last.before]_vars

\* C34 witness: PHOTO_COUNT next clicks in a row from the last photo, the
\* first of them wrapping to 0, are back at the last photo
C34_Witness ==
    /\ last.op = "next" /\ last.streak = PHOTO_COUNT
    /\ fnArgs = PHOTO_COUNT - 1
    /\ activePhotoId = PHOTO_COUNT - 1

\* a next right after a prev from photo 0 is back at photo 0
C34_RoundTrip ==
    /\ last.op = "next" /\ last.before = PHOTO_COUNT - 1
    /\ navs = 2 /\ fnArgs = 0
    /\ activePhotoId = 0

\* C35: a processed frame (the camera is on) takes as its camera target
\* thrice the hand position last recorded from an index fingertip, by this
\* frame or by one before it.
C35_HandParallax ==
    AfterFrame => last.cam = [x |-> handPos.x * 3, y |-> handPos.y * 3]

\* a handler that writes the selection ran last: a tap, a carousel button,
\* or the commit that entered film mode
SelectionHandlerRan ==
    \/ last.op \in {"click", "next", "prev", "close"}
    \/ (last.op = "commit" /\ last.of = "frame" /\ activeMonth # Null)

\* C36 as claimed: after every handler that writes the selection the
\* rendered uiActiveId equals interactionState.activePhotoId.
C36_SelectionInSync == SelectionHandlerRan => uiActiveId = activePhotoId

\* C36 as amended: the uiActiveId React holds once its queued update is
\* rendered always equals interactionState.activePhotoId, so that in every
\* state with nothing queued the carousel controls are rendered iff a photo
\* is selected.
C36_SelectionInSyncOnceRendered ==
    /\ Rendered(uiActiveId, pending.uiActiveId) = activePhotoId
    /\ pending = NoPending => (uiActiveId # NoPhoto <=> activePhotoId # NoPhoto)

\* C36 witness: a tap selected a photo; the selection is queued for the UI
\* and not rendered yet
C36_Witness ==
    /\ last.op = "click" /\ last.target # NoPhoto
    /\ activePhotoId = last.target
    /\ uiActiveId = NoPhoto
    /\ pending.uiActiveId = <<last.target>>

\* the category React holds once its queued update is rendered
CategoryHeld == Rendered(activeMonth, pending.activeMonth)

C37_CamOff ==
    /\ last.op = "camOff"
    /\ activeMonth # Null
    /\ pending.activeMonth = <<Null>>

\* a finger count replaced the active category by another
C37_Replaced ==
    /\ last.op = "frame" /\ last.mRef # Null /\ last.sel # -1
    /\ activeMonth = last.mRef
    /\ pending.activeMonth = <<last.sel>>

\* C38: a processed frame that applies a fist or palm transition, or that
\* runs at most 2000 ms after the last one, sets no category: the category
\* React holds stays as it is or becomes none.
C38_NoCategoryInCooldown ==
    [][(RecognizerInvoked
          /\ (sinceStateChange <= CooldownMs \/ sinceStateChange' = 0))
        => CategoryHeld' \in {CategoryHeld, Null}]_vars

\* C38 witness: exactly 2000 ms after a transition a frame with a hand that
\* is neither fist nor palm was processed with formed false, and no
\* category is held
C38_Witness ==
    /\ AfterFrame /\ last.gesture = "Victory"
    /\ ~last.fRef /\ last.mRef = Null
    /\ sinceStateChange = CooldownMs
    /\ CategoryHeld = Null

\* an Open_Palm frame with fingers extended has just scattered the formed
\* state and set no category
C38_PalmFrame ==
    /\ AfterFrame /\ last.gesture = "Open_Palm" /\ last.fRef
    /\ sinceStateChange = 0
    /\ CategoryHeld = Null

\* C39: no requested animate callback belongs to a scene whose cleanup has
\* run, and the current scene has exactly one requested callback while the
\* component is mounted and none after unmount.
C39_OneAnimationLoop ==
    /\ raf.orphans = 0
    /\ raf.pending = IF mounted THEN 1 ELSE 0

\* C39 witness: the scene was rebuilt for the camera and for an upload, ran
\* a frame, and the component was then unmounted
C39_Witness ==
    /\ ~mounted /\ last.op = "unmount"
    /\ cameraActive /\ Len(userTextures) > 0
    /\ ~videoTimeFresh
    /\ raf = NoFrames

====
